---- MODULE Spec2Model ----
(***************************************************************************)
(* Model of rpi_exporter: the collector registry and New (package          *)
(* collector), the concurrent Collect/execute fan-out, the units' Update,  *)
(* and the filtering, caching HTTP handler (package main).                 *)
(*                                                                         *)
(* The specifications share the state:                                     *)
(*   SpecRegister     registers collectors, then parses the flags          *)
(*   SpecNew          calls collector.New with arbitrary filters           *)
(*   SpecCollect      builds a collector and runs one Collect pass,        *)
(*                    goroutine step by goroutine step                     *)
(*   SpecTwoCollects  runs two Collect calls on one collector              *)
(*   SpecCollectFair  SpecCollect with queries that may hang, under fair   *)
(*                    scheduling                                           *)
(*   SpecHandler      serves a sequence of requests through                *)
(*                    handler.ServeHTTP                                    *)
(*   SpecCache        serves requests without keeping the responses        *)
(*   SpecServe        serves requests at the same time                     *)
(*   SpecExporter     the single-gauge Exporter of rpi_exporter.go under   *)
(*                    Collect calls made at the same time                  *)
(*   SpecTemperature  converts one content of the temperature file         *)
(***************************************************************************)
EXTENDS Naturals, Sequences, FiniteSets, TLC

VARIABLES
    collectorState,     \* collector.collectorState: name -> *bool (the flag's value)
    factories,          \* collector.factories: name -> the factory function
    registrations,      \* the calls of registerCollector so far, in order
    parsed,             \* kingpin.Parse() has run: the flags have their final values
    newCall,            \* the last call of collector.New and what it returned
    c,                  \* the RPiCollector a Collect pass runs on
    units,              \* the Collector instances c.collectors holds, by name
    collectPc,          \* position of the Collect call: idle / waiting / returned
    wg,                 \* the sync.WaitGroup counter of the Collect call
    task,               \* per collector name: the goroutine running execute
    ch,                 \* the metrics received on ch, in order
    cpus,               \* how many directories /sys/devices/system/cpu/cpu[0-9]* matches
                        \* during the Collect pass (0 before the first pass)
    other,              \* a second Collect call on the same c: its own position,
                        \* WaitGroup, goroutines, channel and glob result
    active,             \* which of the two calls collectPc, wg, task, ch, cpus show
    h,                  \* the *handler main serves the metrics path with
    handlers,           \* the http.Handler objects built so far; a pointer is an index
    panicked,           \* newHandler panicked: the process is gone
    log,                \* the requests served so far, with their responses
    req,                \* per server goroutine: the request it is serving and how
                        \* far ServeHTTP has come with it
    inserts,            \* the keys written to h.filteredHandlers, in order
    crashed,            \* the Go runtime threw on a concurrent map access
    e,                  \* the Exporter of rpi_exporter.go: its mutex and its metrics
    collects,           \* per scraping goroutine: how far its Exporter.Collect call
                        \* has come, what its scrape left behind, what it has sent
    scrapes,            \* the results of the calls of Exporter.scrape so far, in order
    conversion          \* the last conversion of the content of the temperature file

passVars == <<other, active>>
collectVars == <<c, units, collectPc, wg, task, ch, cpus, passVars>>
serveVars == <<req, inserts, crashed>>
handlerVars == <<h, handlers, panicked, log, serveVars>>
registryVars == <<factories, registrations, parsed>>
exporterVars == <<e, collects, scrapes, conversion>>
vars == <<collectorState, registryVars, exporterVars, newCall, collectVars, handlerVars>>

(***************************************************************************)
(* Bounds of the model.                                                    *)
(***************************************************************************)
MaxFilterLen == 2       \* longest collect[] list a caller passes
MaxCpus == 2            \* most cpu directories the glob matches
MaxRequests == 3        \* requests served in one run of the process
MaxRegistrations == 3   \* calls of registerCollector before the flags are parsed
MaxSharedUnits == 1     \* units of a collector two Collect calls run on at once
NumClients == 2         \* requests net/http serves at the same time
NumScrapers == 2         \* goroutines that call Exporter.Collect at the same time
MaxScrapes == 3         \* calls of Exporter.scrape in one run of the process
MaxContentLen == 6      \* longest content of the temperature file that is converted
MaxScrapeLen == 2       \* longest content of the temperature file a scrape reads

(***************************************************************************)
(* Names.  Registered are the names the init() functions register; Names   *)
(* adds what a caller may pass besides: a name nobody registered, and a    *)
(* name that contains the separator of the cache key.                      *)
(***************************************************************************)
Registered == {"cpu", "gpu"}
Names == Registered \cup {"fan", "cpu,gpu"}

\* Go compares strings bytewise: ',' (0x2c) sorts before every letter, so
\* "cpu" < "cpu,gpu" < "fan" < "gpu".
NameOrder == <<"cpu", "cpu,gpu", "fan", "gpu">>
NameRank(s) == CHOOSE i \in 1..Len(NameOrder) : NameOrder[i] = s
StringLess(a, b) == NameRank(a) < NameRank(b)

Range(s) == {s[i] : i \in 1..Len(s)}
SeqsUpTo(S, n) == UNION {[1..k -> S] : k \in 0..n}
Filters == SeqsUpTo(Names, MaxFilterLen)
Perms(S) == {p \in [1..Cardinality(S) -> S] : Range(p) = S}

defaultEnabled == TRUE

(***************************************************************************)
(* collector.New                                                           *)
(***************************************************************************)
NilErr == [kind |-> "nil", name |-> ""]
MissingErr(filter) == [kind |-> "missing collector", name |-> filter]
DisabledErr(filter) == [kind |-> "disabled collector", name |-> filter]
FactoryErr(key) == [kind |-> "factory", name |-> key]

\* *RPiCollector: nil, or a collector holding the map's keys.
NilRPiCollector == [isNil |-> TRUE, collectors |-> {}]
RPiCollector(collectors) == [isNil |-> FALSE, collectors |-> collectors]

EnabledUnits == {key \in DOMAIN collectorState : collectorState[key]}

\* The check of one filter in the first loop of New.
FilterErrorNoDisabled(filter) ==
    IF filter \notin DOMAIN collectorState THEN MissingErr(filter) ELSE NilErr
FilterError(filter) ==
    IF filter \notin DOMAIN collectorState THEN MissingErr(filter)
    ELSE IF ~collectorState[filter] THEN DisabledErr(filter)
    ELSE NilErr

\* The first loop of New: the error of the first filter that is not
\* registered or not enabled, nil when there is none.
RECURSIVE FilterLoop(_, _)
FilterLoop(filters, i) ==
    IF i > Len(filters) THEN NilErr
    ELSE IF FilterError(filters[i]) # NilErr THEN FilterError(filters[i])
    ELSE FilterLoop(filters, i + 1)

\* Whether the second loop keeps the collector it just built:
\* len(f) == 0 || f[key].
KeepAll(f, key) == TRUE
RequestedOnly(f, key) == key \in f
Requested(f, key) == f = {} \/ key \in f

\* What New returns when the factory of `key` returned an error.
ReturnPartial(key, collectors, invoked) ==
    [err |-> FactoryErr(key), rpi |-> RPiCollector(collectors), invoked |-> invoked]
OnFactoryError(key, collectors, invoked) ==
    [err |-> FactoryErr(key), rpi |-> NilRPiCollector, invoked |-> invoked]

\* The second loop of New, over collectorState in the order `order` (Go
\* leaves the order of a map range unspecified).  `fails` are the factories
\* that return an error in this call; `invoked` lists the factories called.
RECURSIVE RangeLoop(_, _, _, _, _, _)
RangeLoop(order, fails, f, i, collectors, invoked) ==
    IF i > Len(order)
    THEN [err |-> NilErr, rpi |-> RPiCollector(collectors), invoked |-> invoked]
    ELSE LET key == order[i] IN
         IF collectorState[key]
         THEN IF key \in fails
              THEN OnFactoryError(key, collectors, Append(invoked, key))
              ELSE RangeLoop(order, fails, f, i + 1,
                             IF Requested(f, key) THEN collectors \cup {key}
                                                  ELSE collectors,
                             Append(invoked, key))
         ELSE RangeLoop(order, fails, f, i + 1, collectors, invoked)

New(filters, order, fails) ==
    LET err == FilterLoop(filters, 1) IN
    IF err # NilErr
    THEN [err |-> err, rpi |-> NilRPiCollector, invoked |-> <<>>]
    ELSE RangeLoop(order, fails, Range(filters), 1, {}, <<>>)

\* collectorState after a call of New that returned err: New looks names up
\* in collectorState and factories and assigns to neither.
DisableFailed(state, err) ==
    IF err.kind = "factory" THEN [state EXCEPT ![err.name] = FALSE] ELSE state
RegistryAfterNew(state, err) == state

\* The handler struct before newHandler ran; a nil http.Handler is 0.
NilHandler == [unfilteredHandler |-> 0,
               filteredHandlers |-> [k \in {} |-> 0],
               includeExporterMetrics |-> FALSE,
               created |-> FALSE]

NoCall == [called |-> FALSE, filters |-> <<>>, fails |-> {},
           err |-> NilErr, rpi |-> NilRPiCollector, invoked |-> <<>>]

\* The goroutines net/http serves requests on, and one that has no request.
Clients == 1..NumClients
NoRequest == [pc |-> "idle", filters |-> <<>>, key |-> "", handler |-> 0, status |-> ""]

\* New() of rpi_exporter.go: the zero sync.RWMutex (0: unlocked, otherwise the
\* goroutine that holds the write lock) and five fresh metrics, all 0.  The
\* value of the temperature gauge is kept as the quotient num/den it stands
\* for, the other values are whole numbers.
Quo(num, den) == [num |-> num, den |-> den]
NewExporter == [mutex |-> 0, up |-> 0, scrapeDuration |-> 0,
                totalScrapes |-> 0, failedScrapes |-> 0, temp |-> Quo(0, 1)]
Scrapers == 1..NumScrapers
NoCollect == [pc |-> "idle", err |-> NilErr, scraped |-> <<>>, sent |-> <<>>]
NoConversion == [by |-> "", b |-> <<>>, err |-> NilErr, sent |-> <<>>]

\* A Collect call that has not started.
IdlePass == [collectPc |-> "idle", wg |-> 0, task |-> [n \in {} |-> 0],
             ch |-> <<>>, cpus |-> 0]

\* The factories of the package and the calls its init() functions make.
Factories == {"NewCPUCollector", "NewGPUCollector"}
FactoryOf(name) == IF name = "cpu" THEN "NewCPUCollector" ELSE "NewGPUCollector"
Registration(collector, isDefaultEnabled, factory) ==
    [collector |-> collector, isDefaultEnabled |-> isDefaultEnabled, factory |-> factory]
InitCalls == <<Registration("cpu", defaultEnabled, FactoryOf("cpu")),
               Registration("gpu", defaultEnabled, FactoryOf("gpu"))>>

(***************************************************************************)
(* Initial state: the init() functions have registered cpu and gpu and     *)
(* kingpin has parsed the --collector.<name> flags.                        *)
(***************************************************************************)
Init ==
    /\ collectorState \in [Registered -> BOOLEAN]
    /\ factories = [name \in Registered |-> FactoryOf(name)]
    /\ registrations = InitCalls
    /\ parsed = TRUE
    /\ newCall = NoCall
    /\ c = NilRPiCollector
    /\ units = [name \in {} |-> 0]
    /\ collectPc = "idle"
    /\ wg = 0
    /\ task = [n \in {} |-> 0]
    /\ ch = <<>>
    /\ cpus = 0
    /\ other = IdlePass
    /\ active = 1
    /\ h = NilHandler
    /\ handlers = <<>>
    /\ panicked = FALSE
    /\ log = <<>>
    /\ req = [i \in Clients |-> NoRequest]
    /\ inserts = <<>>
    /\ crashed = FALSE
    /\ e = NewExporter
    /\ collects = [g \in Scrapers |-> NoCollect]
    /\ scrapes = <<>>
    /\ conversion = NoConversion

\* A caller calls collector.New(filters...).
CallNew ==
    \E filters \in Filters, order \in Perms(Registered), fails \in SUBSET Registered :
        LET r == New(filters, order, fails) IN
        /\ newCall' = [called |-> TRUE, filters |-> filters, fails |-> fails,
                       err |-> r.err, rpi |-> r.rpi, invoked |-> r.invoked]
        /\ collectorState' = RegistryAfterNew(collectorState, r.err)
        /\ UNCHANGED <<registryVars, exporterVars, collectVars, handlerVars>>

NextNew == CallNew
SpecNew == Init /\ [][NextNew]_vars

(***************************************************************************)
(* Registration.  SpecRegister starts before any init() function ran and   *)
(* lets callers register names of their choice, then parses the flags.     *)
(***************************************************************************)
\* m[key] = value on a Go map.
MapSet(m, key, value) == [k \in DOMAIN m \cup {key} |-> IF k = key THEN value ELSE m[k]]

InitRegister ==
    /\ collectorState = [name \in {} |-> TRUE]
    /\ factories = [name \in {} |-> ""]
    /\ registrations = <<>>
    /\ parsed = FALSE
    /\ newCall = NoCall
    /\ c = NilRPiCollector
    /\ units = [name \in {} |-> 0]
    /\ collectPc = "idle"
    /\ wg = 0
    /\ task = [n \in {} |-> 0]
    /\ ch = <<>>
    /\ cpus = 0
    /\ other = IdlePass
    /\ active = 1
    /\ h = NilHandler
    /\ handlers = <<>>
    /\ panicked = FALSE
    /\ log = <<>>
    /\ req = [i \in Clients |-> NoRequest]
    /\ inserts = <<>>
    /\ crashed = FALSE
    /\ e = NewExporter
    /\ collects = [g \in Scrapers |-> NoCollect]
    /\ scrapes = <<>>
    /\ conversion = NoConversion

\* registerCollector(collector, isDefaultEnabled, factory): a flag with the
\* default isDefaultEnabled is created and put into collectorState, the
\* factory into factories.  The function returns nothing.
registerCollector ==
    \E collector \in Registered, isDefaultEnabled \in BOOLEAN, factory \in Factories :
        /\ ~parsed
        /\ Len(registrations) < MaxRegistrations
        /\ collectorState' = MapSet(collectorState, collector, isDefaultEnabled)
        /\ factories' = MapSet(factories, collector, factory)
        /\ registrations' = Append(registrations,
                                   Registration(collector, isDefaultEnabled, factory))
        /\ UNCHANGED <<parsed, exporterVars, newCall, collectVars, handlerVars>>

\* kingpin.Parse() in main gives every flag the value of the command line.
\* What kingpin does with two flags of one name is not part of this code:
\* the model parses only when every name was registered once.
Parse ==
    /\ ~parsed
    /\ \A i, j \in 1..Len(registrations) :
           registrations[i].collector = registrations[j].collector => i = j
    /\ collectorState' \in [DOMAIN collectorState -> BOOLEAN]
    /\ parsed' = TRUE
    /\ UNCHANGED <<factories, registrations, exporterVars, newCall, collectVars, handlerVars>>

NextRegister == registerCollector \/ Parse
SpecRegister == InitRegister /\ [][NextRegister]_vars

(***************************************************************************)
(* Metrics.  A metric on ch is its fully qualified name, its one label     *)
(* value ("" when the descriptor has no label) and its value.              *)
(***************************************************************************)
namespace == "rpi"
cpuSubsystem == "cpu"
gpuSubsystem == "gpu"
BuildFQName(ns, subsystem, name) == ns \o "_" \o subsystem \o "_" \o name
scrapeDurationDesc == BuildFQName(namespace, "scrape", "collector_duration_seconds")
scrapeSuccessDesc == BuildFQName(namespace, "scrape", "collector_success")
cpuTempCelsius == BuildFQName(namespace, cpuSubsystem, "temperature_celsius")
cpuFreqHertz == BuildFQName(namespace, cpuSubsystem, "frequency_hertz")
gpuTempCelsius == BuildFQName(namespace, gpuSubsystem, "temperature_celsius")
gpuFreqHertz == BuildFQName(namespace, gpuSubsystem, "frequency_hertz")
getGpuComponents == <<"core", "h264", "v3d">>

\* The instances the factories return; vcgencmd is the flag's default.
vcgencmd == "/opt/vc/bin/vcgencmd"
NewCPUCollector == [cpuTempCelsius |-> cpuTempCelsius, cpuFreqHertz |-> cpuFreqHertz]
NewGPUCollector == [vcgencmd |-> vcgencmd, gpuTempCelsius |-> gpuTempCelsius,
                    gpuFreqHertz |-> gpuFreqHertz]
NewCollector(name) == IF name = "cpu" THEN NewCPUCollector ELSE NewGPUCollector

\* The receiver of Update after a query: Update reads the fields of its
\* receiver (the descriptors, the path of vcgencmd) and assigns none.
RememberOutcome(u, outcome) ==
    [f \in DOMAIN u \cup {"last"} |-> IF f = "last" THEN outcome ELSE u[f]]
UpdateReceiver(u, outcome) == u

MustNewConstMetric(desc, value, label) == [desc |-> desc, label |-> label, value |-> value]

\* strconv.Itoa on the indices the glob can produce.
Itoa(i) == <<"0", "1", "2", "3", "4", "5", "6", "7", "8", "9">>[i + 1]

(***************************************************************************)
(* The units' Update.  A unit makes a fixed list of queries (read a file   *)
(* or run vcgencmd, then parse); a query that fails makes Update return    *)
(* the error at once, a query that succeeds sends one reading on ch.       *)
(* task[name].idx counts the queries that succeeded, task[name].elapsed    *)
(* the queries made: it stands for time.Since(begin).  The value of a      *)
(* reading is left abstract (0).                                           *)
(***************************************************************************)
\* The readings a complete Update of the cpu collector sends: the
\* temperature, then one frequency per cpu the glob matched.
cpuReadings ==
    LET cc == units["cpu"] IN
    <<MustNewConstMetric(cc.cpuTempCelsius, 0, "")>>
    \o [i \in 1..cpus |-> MustNewConstMetric(cc.cpuFreqHertz, 0, Itoa(i - 1))]

\* The readings a complete Update of the gpu collector sends: the
\* temperature, then one frequency per component.
gpuReadings ==
    LET gc == units["gpu"] IN
    <<MustNewConstMetric(gc.gpuTempCelsius, 0, "")>>
    \o [i \in 1..Len(getGpuComponents) |->
            MustNewConstMetric(gc.gpuFreqHertz, 0, getGpuComponents[i])]

Readings(name) == IF name = "cpu" THEN cpuReadings ELSE gpuReadings

\* execute after Update returned: it goes on to record duration and success.
SkipRecordsOnError(err) == IF err # "nil" THEN "done" ELSE "duration"
SuccessFirst(err) == "success"
AfterUpdate(err) == "duration"

\* What a query can come to: its reading, an error of the sample source
\* (ReadFile, cmd.Output) or an error of strconv.ParseFloat.
QueryErrors == {"read error", "parse error"}
QueryOutcomes == {"nil"} \cup QueryErrors

\* The goroutine after a query of Update failed with err: Update returns err
\* at once (`return err` inside the loop included).
SkipComponent(name, t, err) ==
    [t EXCEPT !.idx = t.idx + 1, !.err = err, !.elapsed = t.elapsed + 1,
              !.pc = IF t.idx + 1 = Len(Readings(name))
                     THEN AfterUpdate(err) ELSE "update"]
QueryFailed(name, t, err) ==
    [t EXCEPT !.pc = AfterUpdate(err), !.err = err, !.elapsed = t.elapsed + 1]

\* One query of Update of collector `name`: it fails and Update returns the
\* error, or it succeeds and its reading is sent; after the last reading
\* Update returns nil.
UpdateStep(name, outcome) ==
    LET t == task[name]
        readings == Readings(name)
    IN
    /\ name \in DOMAIN task
    /\ t.pc = "update"
    /\ IF outcome # "nil"
       THEN /\ task' = [task EXCEPT ![name] = QueryFailed(name, t, outcome)]
            /\ ch' = ch
       ELSE /\ ch' = Append(ch, readings[t.idx + 1])
            /\ task' = [task EXCEPT ![name] =
                            [t EXCEPT !.idx = t.idx + 1,
                                      !.elapsed = t.elapsed + 1,
                                      !.pc = IF t.idx + 1 = Len(readings)
                                             THEN AfterUpdate("nil") ELSE "update"]]
    /\ units' = [units EXCEPT ![name] = UpdateReceiver(units[name], outcome)]
    /\ UNCHANGED <<collectorState, registryVars, exporterVars, newCall, c, passVars, collectPc, wg, cpus,
                   handlerVars>>

cpuUpdate == \E outcome \in QueryOutcomes : UpdateStep("cpu", outcome)
gpuUpdate == \E outcome \in QueryOutcomes : UpdateStep("gpu", outcome)

(***************************************************************************)
(* RPiCollector.Collect and execute                                        *)
(***************************************************************************)
\* The success value execute reports for what Update returned.
AlwaysSuccess(err) == 1
SuccessValue(err) == IF err # "nil" THEN 0 ELSE 1

\* wg.Wait() returns.
WaitNoJoin == TRUE
WaitDone == wg = 0

\* The collector a Collect pass will run on is built: collector.New
\* succeeded (the caller gives up when it fails).
Build ==
    \E filters \in Filters, order \in Perms(Registered), fails \in SUBSET Registered :
        LET r == New(filters, order, fails) IN
        /\ collectPc \in {"idle", "returned"}
        /\ r.err = NilErr
        /\ c' = r.rpi
        /\ units' = [name \in r.rpi.collectors |-> NewCollector(name)]
        /\ collectPc' = "idle"
        /\ wg' = 0
        /\ task' = [n \in {} |-> 0]
        /\ ch' = <<>>
        /\ collectorState' = RegistryAfterNew(collectorState, r.err)
        /\ UNCHANGED <<registryVars, exporterVars, newCall, cpus, passVars, handlerVars>>

\* Collect up to wg.Wait(): the counter is set and one goroutine per
\* collector is started.
Collect ==
    /\ collectPc \in {"idle", "returned"}
    /\ ~c.isNil
    /\ wg' = Cardinality(c.collectors)
    /\ task' = [name \in c.collectors |->
                    [pc |-> "update", idx |-> 0, err |-> "nil", elapsed |-> 0]]
    /\ ch' = <<>>
    /\ collectPc' = "waiting"
    /\ cpus' \in 0..MaxCpus
    /\ UNCHANGED <<collectorState, registryVars, exporterVars, newCall, c, units, passVars, handlerVars>>

\* execute: ch <- duration.
SendDuration(name) ==
    /\ name \in DOMAIN task
    /\ task[name].pc = "duration"
    /\ ch' = Append(ch, MustNewConstMetric(scrapeDurationDesc, task[name].elapsed, name))
    /\ task' = [task EXCEPT ![name].pc = "success"]
    /\ UNCHANGED <<collectorState, registryVars, exporterVars, newCall, c, units, passVars, collectPc, wg, cpus, handlerVars>>

\* execute: ch <- success.
SendSuccess(name) ==
    /\ name \in DOMAIN task
    /\ task[name].pc = "success"
    /\ ch' = Append(ch, MustNewConstMetric(scrapeSuccessDesc,
                                           SuccessValue(task[name].err), name))
    /\ task' = [task EXCEPT ![name].pc = "done"]
    /\ UNCHANGED <<collectorState, registryVars, exporterVars, newCall, c, units, passVars, collectPc, wg, cpus, handlerVars>>

\* The goroutine's wg.Done() after execute returned.
DoneForgotten(name) ==
    /\ name \in DOMAIN task
    /\ task[name].pc = "done"
    /\ task' = [task EXCEPT ![name].pc = "exited"]
    /\ UNCHANGED <<collectorState, registryVars, exporterVars, newCall, c, units, passVars, collectPc, wg, ch, cpus,
                   handlerVars>>
Done(name) ==
    /\ name \in DOMAIN task
    /\ task[name].pc = "done"
    /\ wg' = wg - 1
    /\ task' = [task EXCEPT ![name].pc = "exited"]
    /\ UNCHANGED <<collectorState, registryVars, exporterVars, newCall, c, units, passVars, collectPc, ch, cpus, handlerVars>>

\* wg.Wait() returns and with it Collect.
CollectReturn ==
    /\ collectPc = "waiting"
    /\ WaitDone
    /\ collectPc' = "returned"
    /\ UNCHANGED <<collectorState, registryVars, exporterVars, newCall, c, units, passVars, wg, task, ch, cpus, handlerVars>>

execute ==
    \/ cpuUpdate
    \/ gpuUpdate
    \/ \E name \in Registered : SendDuration(name)
    \/ \E name \in Registered : SendSuccess(name)
    \/ \E name \in Registered : Done(name)

NextCollect == Build \/ Collect \/ execute \/ CollectReturn
SpecCollect == Init /\ [][NextCollect]_vars

(***************************************************************************)
(* Two Collect calls on one RPiCollector, as two requests served by the    *)
(* same cached handler make them.  Each call has its own WaitGroup, its    *)
(* own goroutines and its own channel (the registry makes one per Gather); *)
(* the calls share c and the unit instances.  collectPc, wg, task, ch and  *)
(* cpus show the call whose goroutines are running, `other` keeps the      *)
(* second call; Yield hands the processor to the goroutines of the other   *)
(* call, so the steps of the two calls interleave in every order.          *)
(***************************************************************************)
Yield ==
    /\ ~c.isNil
    /\ other' = [collectPc |-> collectPc, wg |-> wg, task |-> task, ch |-> ch,
                 cpus |-> cpus]
    /\ collectPc' = other.collectPc
    /\ wg' = other.wg
    /\ task' = other.task
    /\ ch' = other.ch
    /\ cpus' = other.cpus
    /\ active' = 3 - active
    /\ UNCHANGED <<collectorState, registryVars, exporterVars, newCall, c, units, handlerVars>>

\* The handler both requests use is built once, before either of them.
BuildShared ==
    /\ c.isNil
    /\ Build
    /\ Cardinality(c'.collectors) \in 1..MaxSharedUnits

NextTwoCollects == BuildShared \/ Collect \/ execute \/ CollectReturn \/ Yield
SpecTwoCollects == Init /\ [][NextTwoCollects]_vars

(***************************************************************************)
(* Collect under fair scheduling.  A query of Update is a blocking call    *)
(* (cmd.Output, ioutil.ReadFile) without a timeout: it may never come      *)
(* back, and then the goroutine stays in it.  SpecCollectFair lets a query *)
(* hang, and otherwise runs every goroutine that can take a step: a query  *)
(* that does not hang returns, a send on ch is received, wg.Wait() returns *)
(* once the counter is zero.                                               *)
(***************************************************************************)
\* The query Update of collector `name` is in never returns.
UpdateHangs(name) ==
    /\ name \in DOMAIN task
    /\ task[name].pc = "update"
    /\ task' = [task EXCEPT ![name].pc = "hung"]
    /\ UNCHANGED <<collectorState, registryVars, exporterVars, newCall, c, units, passVars, collectPc, wg, ch, cpus,
                   handlerVars>>

Hang == \E name \in Registered : UpdateHangs(name)

\* The steps of the goroutine Collect started for `name`.
goroutine(name) ==
    \/ \E outcome \in QueryOutcomes : UpdateStep(name, outcome)
    \/ SendDuration(name)
    \/ SendSuccess(name)
    \/ Done(name)

NextCollectFair == NextCollect \/ Hang
SpecCollectFair ==
    /\ Init
    /\ [][NextCollectFair]_vars
    /\ \A name \in Registered : WF_vars(goroutine(name))
    /\ WF_vars(CollectReturn)

(***************************************************************************)
(* The handler of package main: newHandler, ServeHTTP, filteredHandler.    *)
(* Requests are served one after the other.                                *)
(***************************************************************************)
\* sort.Strings: insertion of s[n] into the sorted prefix, in Go's string
\* order.
RECURSIVE Insert(_, _)
Insert(sorted, x) ==
    IF sorted = <<>> THEN <<x>>
    ELSE IF StringLess(x, Head(sorted)) THEN <<x>> \o sorted
    ELSE <<Head(sorted)>> \o Insert(Tail(sorted), x)

RECURSIVE InsertionSort(_)
InsertionSort(s) ==
    IF s = <<>> THEN <<>>
    ELSE Insert(InsertionSort(SubSeq(s, 1, Len(s) - 1)), s[Len(s)])

NoSort(s) == s
SortStrings(s) == InsertionSort(s)

\* strings.Join(elems, sep)
RECURSIVE Join(_, _)
Join(elems, sep) ==
    IF elems = <<>> THEN ""
    ELSE IF Len(elems) = 1 THEN elems[1]
    ELSE elems[1] \o sep \o Join(Tail(elems), sep)

\* h.filteredHandlers[filtersStr]: the nil handler for a key not in the map.
AlwaysMiss(m, filtersStr) == 0
MapLookup(m, filtersStr) == IF filtersStr \in DOMAIN m THEN m[filtersStr] ELSE 0

\* h.filteredHandlers[filtersStr] = handler
MapStoreOnly(m, filtersStr, handler) == [k \in {filtersStr} |-> handler]
MapStore(m, filtersStr, handler) ==
    [k \in DOMAIN m \cup {filtersStr} |-> IF k = filtersStr THEN handler ELSE m[k]]

\* err.Error() of the errors New returns.
ErrorString(err) ==
    IF err.kind = "factory" THEN "factory of " \o err.name \o " failed"
    ELSE err.kind \o ": " \o err.name

\* The http.Handler promhttp builds around the registry holding rpiColl.
PromHandler(rpiColl, includeExporterMetrics) ==
    [collector |-> rpiColl,
     gatherers |-> IF includeExporterMetrics
                   THEN <<"exporterMetricsRegistry", "reg">>
                   ELSE <<"reg">>,
     instrumented |-> includeExporterMetrics]

\* Whether filteredHandler stores the handler it built: len(filters) > 0.
StoreAlways(filters) == TRUE
ShouldStore(filters) == Len(filters) > 0

\* The handler struct after collector.New returned an error: filteredHandler
\* returns before it touches h.filteredHandlers.
CacheFailure(hh, filtersStr) ==
    [hh EXCEPT !.filteredHandlers = MapStore(hh.filteredHandlers, filtersStr, 0)]
OnBuildError(hh, filtersStr) == hh

\* h.filteredHandler(filters...) on handler struct hh: the handler and error
\* it returns (with the kind of the error of collector.New behind it), the
\* struct and the handler objects afterwards, whether it called collector.New
\* and whether it built a handler.
filteredHandler(hh, filters, order, fails) ==
    IF Len(filters) = 0 /\ hh.unfilteredHandler # 0
    THEN [handler |-> hh.unfilteredHandler, err |-> "", cause |-> "nil", h |-> hh,
          handlers |-> handlers, attempted |-> FALSE, built |-> FALSE,
          newErr |-> NilErr]
    ELSE LET filtersStr == Join(filters, ",")
             cached == MapLookup(hh.filteredHandlers, filtersStr)
         IN
         IF cached # 0
         THEN [handler |-> cached, err |-> "", cause |-> "nil", h |-> hh,
               handlers |-> handlers, attempted |-> FALSE, built |-> FALSE,
               newErr |-> NilErr]
         ELSE LET r == New(filters, order, fails) IN
              IF r.err # NilErr
              THEN [handler |-> 0, err |-> "Couldn't create " \o ErrorString(r.err),
                    cause |-> r.err.kind,
                    h |-> OnBuildError(hh, filtersStr), handlers |-> handlers,
                    attempted |-> TRUE, built |-> FALSE, newErr |-> r.err]
              ELSE LET handler == Len(handlers) + 1 IN
                   [handler |-> handler,
                    err |-> "",
                    cause |-> "nil",
                    h |-> IF ShouldStore(filters)
                          THEN [hh EXCEPT !.filteredHandlers =
                                    MapStore(hh.filteredHandlers, filtersStr, handler)]
                          ELSE hh,
                    handlers |-> Append(handlers,
                                        PromHandler(r.rpi, hh.includeExporterMetrics)),
                    attempted |-> TRUE,
                    built |-> TRUE,
                    newErr |-> NilErr]

\* main calls newHandler(!*webDisableExporterMetrics): the unfiltered handler
\* is built, or newHandler panics.
newHandler ==
    \E includeExporterMetrics \in BOOLEAN,
       order \in Perms(Registered), fails \in SUBSET Registered :
        LET h0 == [NilHandler EXCEPT !.includeExporterMetrics = includeExporterMetrics]
            r == filteredHandler(h0, <<>>, order, fails)
        IN
        /\ ~h.created
        /\ ~panicked
        /\ IF r.err # ""
           THEN /\ panicked' = TRUE
                /\ UNCHANGED <<h, handlers>>
           ELSE /\ h' = [r.h EXCEPT !.unfilteredHandler = r.handler, !.created = TRUE]
                /\ handlers' = r.handlers
                /\ UNCHANGED panicked
        /\ collectorState' = RegistryAfterNew(collectorState, r.newErr)
        /\ UNCHANGED <<registryVars, exporterVars, newCall, collectVars, log, serveVars>>

\* The status ServeHTTP answers an error of filteredHandler with.
StatusForError(cause) == "StatusBadRequest"

\* One request to the metrics path with the collect[] values `filters`.  The
\* response is the status, the handler that served it (0 for none) and the
\* body of an error response; the log keeps the request as it arrived,
\* whether collector.New was called for it and what made it fail.
ServeHTTP ==
    \E query \in Filters, order \in Perms(Registered), fails \in SUBSET Registered :
        LET filters == SortStrings(query) IN
        /\ h.created
        /\ Len(log) < MaxRequests
        /\ IF Len(filters) = 0
           THEN /\ log' = Append(log, [filters |-> query, key |-> Join(filters, ","),
                                       status |-> "StatusOK",
                                       handler |-> h.unfilteredHandler,
                                       attempted |-> FALSE, cause |-> "nil",
                                       built |-> FALSE, body |-> ""])
                /\ UNCHANGED <<h, handlers>>
           ELSE LET r == filteredHandler(h, filters, order, fails) IN
                /\ h' = r.h
                /\ handlers' = r.handlers
                /\ IF r.err # ""
                   THEN log' = Append(log, [filters |-> query, key |-> Join(filters, ","),
                                            status |-> StatusForError(r.cause),
                                            handler |-> 0,
                                            attempted |-> r.attempted, cause |-> r.cause,
                                            built |-> FALSE,
                                            body |-> "Couldn't create filtered metrics handler: "
                                                     \o r.err])
                   ELSE log' = Append(log, [filters |-> query, key |-> Join(filters, ","),
                                            status |-> "StatusOK",
                                            handler |-> r.handler,
                                            attempted |-> r.attempted, cause |-> "nil",
                                            built |-> r.built, body |-> ""])
        /\ collectorState' =
               IF Len(filters) = 0 THEN collectorState
               ELSE RegistryAfterNew(collectorState,
                                     filteredHandler(h, filters, order, fails).newErr)
        /\ UNCHANGED <<registryVars, exporterVars, newCall, collectVars, panicked, serveVars>>

NextHandler == newHandler \/ ServeHTTP
SpecHandler == Init /\ [][NextHandler]_vars

(***************************************************************************)
(* The cache over runs of any length.  The log of responses is not state   *)
(* of the program; without it the handler struct and the handler objects   *)
(* are all a request leaves behind, and a run may serve any number of      *)
(* requests.                                                               *)
(***************************************************************************)
\* ServeHTTP as in SpecHandler, the response not recorded.
ServeHTTPUnlogged ==
    \E query \in Filters, order \in Perms(Registered), fails \in SUBSET Registered :
        LET filters == SortStrings(query)
            r == filteredHandler(h, filters, order, fails)
        IN
        /\ h.created
        /\ IF Len(filters) = 0
           THEN UNCHANGED <<h, handlers, collectorState>>
           ELSE /\ h' = r.h
                /\ handlers' = r.handlers
                /\ collectorState' = RegistryAfterNew(collectorState, r.newErr)
        /\ UNCHANGED <<registryVars, exporterVars, newCall, collectVars, panicked, log, serveVars>>

NextCache == newHandler \/ ServeHTTPUnlogged
SpecCache == Init /\ [][NextCache]_vars

(***************************************************************************)
(* Requests served at the same time.  net/http runs ServeHTTP of the one   *)
(* *handler on a goroutine per connection, and the handler takes no lock:  *)
(* the steps of ServeHTTP and filteredHandler of different requests        *)
(* interleave.  A map access takes time (Begin to End); Go leaves a write  *)
(* that overlaps another access undefined: the runtime may throw (the      *)
(* process dies), or the accesses take effect in the order they end.       *)
(***************************************************************************)
\* The goroutine takes a request: the filters are read and sorted, and a
\* request without filters goes to the unfiltered handler.
Accept(i) ==
    \E query \in Filters :
        LET filters == SortStrings(query) IN
        /\ h.created
        /\ ~crashed
        /\ req[i].pc = "idle"
        /\ req' = [req EXCEPT ![i] =
                       IF Len(filters) = 0
                       THEN [pc |-> "served", filters |-> filters, key |-> "",
                             handler |-> h.unfilteredHandler, status |-> "StatusOK"]
                       ELSE [pc |-> "lookup", filters |-> filters,
                             key |-> Join(filters, ","), handler |-> 0, status |-> ""]]
        /\ UNCHANGED <<collectorState, registryVars, exporterVars, newCall, collectVars, h, handlers,
                       panicked, log, inserts, crashed>>

\* handler := h.filteredHandlers[filtersStr] begins.
MapReadBegin(i) ==
    /\ ~crashed
    /\ req[i].pc = "lookup"
    /\ req' = [req EXCEPT ![i].pc = "reading"]
    /\ UNCHANGED <<collectorState, registryVars, exporterVars, newCall, collectVars, h, handlers,
                   panicked, log, inserts, crashed>>

\* The read ends: a handler found serves the request, otherwise
\* filteredHandler goes on to build one.
MapReadEnd(i) ==
    LET cached == MapLookup(h.filteredHandlers, req[i].key) IN
    /\ ~crashed
    /\ req[i].pc = "reading"
    /\ req' = [req EXCEPT ![i] =
                   IF cached # 0
                   THEN [req[i] EXCEPT !.pc = "served", !.handler = cached,
                                       !.status = "StatusOK"]
                   ELSE [req[i] EXCEPT !.pc = "new"]]
    /\ UNCHANGED <<collectorState, registryVars, exporterVars, newCall, collectVars, h, handlers,
                   panicked, log, inserts, crashed>>

\* collector.New and, when it succeeds, the registry and the promhttp
\* handler around the collector.
BuildHandler(i) ==
    \E order \in Perms(Registered), fails \in SUBSET Registered :
        LET r == New(req[i].filters, order, fails) IN
        /\ ~crashed
        /\ req[i].pc = "new"
        /\ IF r.err # NilErr
           THEN /\ req' = [req EXCEPT ![i].pc = "refused",
                                      ![i].status = StatusForError(r.err.kind)]
                /\ UNCHANGED handlers
           ELSE /\ handlers' = Append(handlers,
                                      PromHandler(r.rpi, h.includeExporterMetrics))
                /\ req' = [req EXCEPT ![i].handler = Len(handlers) + 1,
                                      ![i].pc = IF ShouldStore(req[i].filters)
                                                THEN "store" ELSE "served",
                                      ![i].status = IF ShouldStore(req[i].filters)
                                                    THEN "" ELSE "StatusOK"]
        /\ collectorState' = RegistryAfterNew(collectorState, r.err)
        /\ UNCHANGED <<registryVars, exporterVars, newCall, collectVars, h, panicked, log, inserts,
                       crashed>>

\* h.filteredHandlers[filtersStr] = handler begins.
MapWriteBegin(i) ==
    /\ ~crashed
    /\ req[i].pc = "store"
    /\ req' = [req EXCEPT ![i].pc = "writing"]
    /\ UNCHANGED <<collectorState, registryVars, exporterVars, newCall, collectVars, h, handlers,
                   panicked, log, inserts, crashed>>

\* The write ends: the key maps to the handler this request built.
MapWriteEnd(i) ==
    /\ ~crashed
    /\ req[i].pc = "writing"
    /\ h' = [h EXCEPT !.filteredHandlers =
                 MapStore(h.filteredHandlers, req[i].key, req[i].handler)]
    /\ inserts' = Append(inserts, req[i].key)
    /\ req' = [req EXCEPT ![i].pc = "served", ![i].status = "StatusOK"]
    /\ UNCHANGED <<collectorState, registryVars, exporterVars, newCall, collectVars, handlers,
                   panicked, log, crashed>>

\* What goroutine i is doing with h.filteredHandlers.
MapAccess(i) ==
    IF req[i].pc = "writing" THEN "write"
    ELSE IF req[i].pc = "reading" THEN "read"
    ELSE "none"

\* The runtime notices a write that overlaps another access of the map and
\* throws "concurrent map writes" or "concurrent map read and map write".
Throw ==
    /\ ~crashed
    /\ \E i, j \in Clients :
           i # j /\ MapAccess(i) = "write" /\ MapAccess(j) # "none"
    /\ crashed' = TRUE
    /\ UNCHANGED <<collectorState, registryVars, exporterVars, newCall, collectVars, h, handlers,
                   panicked, log, req, inserts>>

serve(i) ==
    \/ Accept(i)
    \/ MapReadBegin(i)
    \/ MapReadEnd(i)
    \/ BuildHandler(i)
    \/ MapWriteBegin(i)
    \/ MapWriteEnd(i)

NextServe == newHandler \/ (\E i \in Clients : serve(i)) \/ Throw
SpecServe == Init /\ [][NextServe]_vars

(***************************************************************************)
(* The temperature file and its conversion.  The content of                *)
(* /sys/class/thermal/thermal_zone0/temp is a sequence of bytes; the model *)
(* draws them from Bytes: three digits, the newline the kernel ends the    *)
(* file with, and a letter no number contains.                             *)
(***************************************************************************)
Bytes == {"0", "3", "5", "\n", "a"}
ErrRead == [kind |-> "read", name |-> "/sys/class/thermal/thermal_zone0/temp"]
ErrSyntax == [kind |-> "invalid syntax", name |-> "strconv.ParseFloat"]

\* ioutil.ReadFile: the content and no error, or no content and an error.
ReadFile(n) ==
    {[b |-> b, err |-> NilErr] : b \in SeqsUpTo(Bytes, n)} \cup {[b |-> <<>>, err |-> ErrRead]}

IsDigit(b) == b \in {Itoa(d) : d \in 0..9}
DigitValue(b) == CHOOSE d \in 0..9 : Itoa(d) = b
IsSpace(b) == b \in {"\t", "\n", "\r", " "}

\* bytes.TrimSpace: the content without its leading and trailing white space.
RECURSIVE TrimLeft(_)
TrimLeft(b) == IF b # <<>> /\ IsSpace(Head(b)) THEN TrimLeft(Tail(b)) ELSE b
RECURSIVE TrimRight(_)
TrimRight(b) ==
    IF b # <<>> /\ IsSpace(b[Len(b)]) THEN TrimRight(SubSeq(b, 1, Len(b) - 1)) ELSE b
TrimSpace(b) == TrimRight(TrimLeft(b))

\* strconv.ParseFloat(s, 64) on strings of Bytes: a non-empty string of digits
\* is the number it writes, read digit by digit from the left; every other
\* string, one with a newline in it included, is a syntax error, because the
\* whole string has to be consumed.
RECURSIVE Mantissa(_, _)
Mantissa(s, acc) ==
    IF s = <<>> THEN acc ELSE Mantissa(Tail(s), acc * 10 + DigitValue(Head(s)))
ParseFloat(s) ==
    IF s # <<>> /\ \A i \in 1..Len(s) : IsDigit(s[i])
    THEN [f |-> Mantissa(s, 0), err |-> NilErr]
    ELSE [f |-> 0, err |-> ErrSyntax]

\* The first query of cpuCollector.Update (cpu.go): read the file, trim it,
\* parse it, divide by 1000 and send one cpuTempCelsius reading.  A failure
\* returns the error and sends nothing.
cpuTemperature(file) ==
    LET temp == ParseFloat(TrimSpace(file.b)) IN
    IF file.err # NilErr THEN [err |-> file.err, sent |-> <<>>]
    ELSE IF temp.err # NilErr THEN [err |-> temp.err, sent |-> <<>>]
    ELSE [err |-> NilErr,
          sent |-> <<MustNewConstMetric(cpuTempCelsius, Quo(temp.f, 1000), "")>>]

(***************************************************************************)
(* The single-gauge Exporter of rpi_exporter.go.                           *)
(***************************************************************************)
\* The deferred closure of scrape: up is 1 if the named result err is nil,
\* 0 otherwise.
AlwaysUp(err) == 1
UpAfter(err) == IF err = NilErr THEN 1 ELSE 0

\* Exporter.scrape() on the Exporter ex when ReadFile returns file:
\* totalScrapes.Inc(), then the read and the parse of string(b) as it is, each
\* returning its error at once, then temp.Set(temp / 1000); on every return
\* the deferred closures set scrapeDuration, then up.  scrapeDuration counts
\* the calls scrape made: it stands for time.Since(begun).  failedScrapes is
\* assigned nowhere.
scrape(ex, file) ==
    LET temp == ParseFloat(file.b)
        err == IF file.err # NilErr THEN file.err ELSE temp.err
        elapsed == IF file.err # NilErr THEN 1 ELSE 2
        counted == [ex EXCEPT !.totalScrapes = @ + 1]
        set == IF err = NilErr THEN [counted EXCEPT !.temp = Quo(temp.f, 1000)]
               ELSE counted
    IN [e |-> [set EXCEPT !.scrapeDuration = elapsed, !.up = UpAfter(err)],
        err |-> err]

\* The five metrics in the order Exporter.Collect sends them, and what
\* collecting them from ex sends.
ExporterMetrics == <<"up", "scrapeDuration", "failedScrapes", "totalScrapes", "temp">>
Collected(ex) == [i \in 1..Len(ExporterMetrics) |-> ex[ExporterMetrics[i]]]

\* e.mutex.Lock() returns when no goroutine holds the lock.
NoMutex(ex) == TRUE
Unlocked(ex) == ex.mutex = 0

\* Exporter.Collect, goroutine g: e.mutex.Lock().
MutexLock(g) ==
    /\ collects[g].pc = "idle"
    /\ e.totalScrapes < MaxScrapes
    /\ Unlocked(e)
    /\ e' = [e EXCEPT !.mutex = g]
    /\ collects' = [collects EXCEPT ![g] = [NoCollect EXCEPT !.pc = "scrape"]]
    /\ UNCHANGED <<collectorState, registryVars, scrapes, conversion, newCall, collectVars,
                   handlerVars>>

\* Exporter.Collect, goroutine g: e.scrape(); an error is logged and
\* otherwise ignored.
Scrape(g) ==
    \E file \in ReadFile(MaxScrapeLen) :
        LET r == scrape(e, file) IN
        /\ collects[g].pc = "scrape"
        /\ e' = r.e
        /\ collects' = [collects EXCEPT ![g] = [pc |-> "collect", err |-> r.err,
                                                scraped |-> Collected(r.e), sent |-> <<>>]]
        /\ scrapes' = Append(scrapes, [by |-> g, err |-> r.err])
        /\ UNCHANGED <<collectorState, registryVars, conversion, newCall, collectVars,
                       handlerVars>>

\* Exporter.Collect, goroutine g: the next of e.up.Collect(ch), ...,
\* e.temp.Collect(ch) sends the value the metric has now.
MetricCollect(g) ==
    LET i == Len(collects[g].sent) + 1 IN
    /\ collects[g].pc = "collect"
    /\ collects' = [collects EXCEPT
            ![g].sent = Append(@, e[ExporterMetrics[i]]),
            ![g].pc = IF i = Len(ExporterMetrics) THEN "unlock" ELSE "collect"]
    /\ UNCHANGED <<collectorState, registryVars, e, scrapes, conversion, newCall, collectVars,
                   handlerVars>>

\* Exporter.Collect, goroutine g: the deferred e.mutex.Unlock(), and return.
MutexUnlock(g) ==
    /\ collects[g].pc = "unlock"
    /\ e' = [e EXCEPT !.mutex = 0]
    /\ collects' = [collects EXCEPT ![g].pc = "idle"]
    /\ UNCHANGED <<collectorState, registryVars, scrapes, conversion, newCall, collectVars,
                   handlerVars>>

ExporterCollect(g) == MutexLock(g) \/ Scrape(g) \/ MetricCollect(g) \/ MutexUnlock(g)

\* The program of rpi_exporter.go has no collector registry.
InitExporter == InitRegister
NextExporter == \E g \in Scrapers : ExporterCollect(g)
SpecExporter == InitExporter /\ [][NextExporter]_vars

\* The conversion of one content of the temperature file: by the cpu
\* collector, or by the scrape of a fresh Exporter, whose Collect then sends
\* the temp gauge whatever scrape returned.
cpuConvert ==
    /\ conversion = NoConversion
    /\ \E file \in ReadFile(MaxContentLen) :
        LET r == cpuTemperature(file) IN
        conversion' = [by |-> "cpuCollector.Update", b |-> file.b, err |-> r.err,
                       sent |-> r.sent]
    /\ UNCHANGED <<collectorState, registryVars, e, collects, scrapes, newCall,
                   collectVars, handlerVars>>

exporterConvert ==
    /\ conversion = NoConversion
    /\ \E file \in ReadFile(MaxContentLen) :
        LET r == scrape(NewExporter, file) IN
        conversion' = [by |-> "Exporter.scrape", b |-> file.b, err |-> r.err,
                       sent |-> <<MustNewConstMetric(cpuTempCelsius, r.e.temp, "")>>]
    /\ UNCHANGED <<collectorState, registryVars, e, collects, scrapes, newCall,
                   collectVars, handlerVars>>

NextTemperature == cpuConvert \/ exporterConvert
SpecTemperature == InitExporter /\ [][NextTemperature]_vars

(***************************************************************************)
(* Claims about collector.New, checked under SpecNew.                      *)
(***************************************************************************)
IsRegistered(name) == name \in DOMAIN collectorState
IsDisabled(name) == IsRegistered(name) /\ ~collectorState[name]
IsValid(name) == IsRegistered(name) /\ collectorState[name]
Offending(filters) == {i \in 1..Len(filters) : ~IsValid(filters[i])}
FirstOffending(filters) ==
    CHOOSE i \in Offending(filters) : \A j \in Offending(filters) : i <= j
AllValid(filters) == filters # <<>> /\ Offending(filters) = {}
NoDuplicates(s) == \A i, j \in 1..Len(s) : s[i] = s[j] => i = j
NewFailedWith(kind) == newCall.err.kind = kind /\ newCall.rpi = NilRPiCollector
NewReturned(keys) == newCall.err = NilErr /\ newCall.rpi = RPiCollector(keys)

\* C4 as stated: a filter with an unregistered name fails with the
\* unknown-unit error, a filter with a disabled name fails with the
\* disabled-unit error, and no collector is returned.
C4_AsStated ==
    newCall.called =>
        /\ (\E i \in 1..Len(newCall.filters) : ~IsRegistered(newCall.filters[i]))
                => NewFailedWith("missing collector")
        /\ (\E i \in 1..Len(newCall.filters) : IsDisabled(newCall.filters[i]))
                => NewFailedWith("disabled collector")

\* C4 amended: a filter with an unregistered or disabled name fails, whatever
\* the other names are, with the error of the first such name in the filter's
\* order (unknown-unit if it is unregistered, disabled-unit if it is
\* disabled); no collector is returned and no factory is invoked.
C4_FirstOffendingNameDecides ==
    (newCall.called /\ Offending(newCall.filters) # {}) =>
        LET name == newCall.filters[FirstOffending(newCall.filters)] IN
        /\ newCall.err = IF IsRegistered(name) THEN DisabledErr(name)
                                               ELSE MissingErr(name)
        /\ newCall.rpi = NilRPiCollector
        /\ newCall.invoked = <<>>

\* C4 witness: a valid name followed by a disabled one was refused.
C4_Witness ==
    /\ newCall.called
    /\ Len(newCall.filters) = 2
    /\ IsValid(newCall.filters[1])
    /\ IsDisabled(newCall.filters[2])
    /\ NewFailedWith("disabled collector")

UnitDescs(name) ==
    IF name = "cpu" THEN {cpuTempCelsius, cpuFreqHertz} ELSE {gpuTempCelsius, gpuFreqHertz}
\* The readings of unit `name` received on ch, in order.
ReadingsOn(name) == SelectSeq(ch, LAMBDA m : m.desc \in UnitDescs(name))
\* The records with descriptor `desc` labelled `name` received on ch.
Records(desc, name) == {i \in 1..Len(ch) : ch[i].desc = desc /\ ch[i].label = name}
SuccessRecord(name, value) == MustNewConstMetric(scrapeSuccessDesc, value, name)
UpdateFailed(name) == task[name].pc # "update" /\ task[name].err # "nil"
UpdateSucceeded(name) == task[name].pc # "update" /\ task[name].err = "nil"

\* C1: when Collect has returned, every reading of each unit whose Update
\* succeeded was received, each succeeding unit has a success=1 record and
\* each failing unit a success=0 record; and a Collect that has not returned
\* can always take a step, whatever failed (it never aborts or blocks).
C1_FaultIsolation ==
    /\ collectPc = "returned" =>
           \A name \in c.collectors :
               /\ UpdateSucceeded(name) =>
                      /\ ReadingsOn(name) = Readings(name)
                      /\ SuccessRecord(name, 1) \in Range(ch)
                      /\ SuccessRecord(name, 0) \notin Range(ch)
               /\ UpdateFailed(name) =>
                      /\ SuccessRecord(name, 0) \in Range(ch)
                      /\ SuccessRecord(name, 1) \notin Range(ch)
               /\ UpdateSucceeded(name) \/ UpdateFailed(name)
    /\ collectPc = "waiting" => ENABLED (execute \/ CollectReturn)

\* C1 witness: Collect returned with cpu succeeded and gpu failed.
C1_Witness ==
    /\ collectPc = "returned"
    /\ c.collectors = {"cpu", "gpu"}
    /\ UpdateSucceeded("cpu")
    /\ UpdateFailed("gpu")
    /\ ReadingsOn("cpu") = Readings("cpu")

\* C2: when Collect has returned, every goroutine it started has finished:
\* Update returned, both records were sent, wg.Done() was called.
C2_JoinBarrier ==
    collectPc = "returned" =>
        /\ wg = 0
        /\ DOMAIN task = c.collectors
        /\ \A name \in c.collectors :
               /\ task[name].pc = "exited"
               /\ Records(scrapeDurationDesc, name) # {}
               /\ Records(scrapeSuccessDesc, name) # {}

\* C2 witness: Collect returned after two goroutines.
C2_Witness ==
    /\ collectPc = "returned"
    /\ Cardinality(c.collectors) = 2
    /\ \A name \in c.collectors : task[name].pc = "exited"

\* C3: every outcome record is labelled with a unit of the collector and no
\* unit gets more than one duration or success record; when Collect has
\* returned every unit has exactly one of each, readings or not, and the
\* success value is 1 exactly when Update returned nil.
C3_OneOutcomePerUnit ==
    /\ \A i \in 1..Len(ch) :
           ch[i].desc \in {scrapeDurationDesc, scrapeSuccessDesc}
               => ch[i].label \in c.collectors
    /\ \A name \in Registered :
           /\ Cardinality(Records(scrapeDurationDesc, name)) <= 1
           /\ Cardinality(Records(scrapeSuccessDesc, name)) <= 1
    /\ collectPc = "returned" =>
           \A name \in c.collectors :
               /\ Cardinality(Records(scrapeDurationDesc, name)) = 1
               /\ Cardinality(Records(scrapeSuccessDesc, name)) = 1
               /\ \A i \in Records(scrapeSuccessDesc, name) :
                      ch[i].value = IF task[name].err = "nil" THEN 1 ELSE 0

\* C3 witness: Collect returned for the cpu unit alone, gpu being enabled
\* but not requested, and cpu failed before it sent any reading.
C3_Witness ==
    /\ collectPc = "returned"
    /\ c.collectors = {"cpu"}
    /\ collectorState["gpu"]
    /\ UpdateFailed("cpu")
    /\ ReadingsOn("cpu") = <<>>
    /\ Cardinality(Records(scrapeSuccessDesc, "cpu")) = 1

(***************************************************************************)
(* Claims about the handler cache, checked under SpecHandler.              *)
(***************************************************************************)
Filtered(i) == log[i].filters # <<>>
Served(i) == log[i].status = "StatusOK"
\* The requests with a non-empty filter and the cache key of request j.
SameKey(j) == {i \in 1..Len(log) : Filtered(i) /\ log[i].key = log[j].key}
Min(S) == CHOOSE i \in S : \A j \in S : i <= j
Count(s, x) == Cardinality({i \in 1..Len(s) : s[i] = x})
IsPermutation(p, q) == Len(p) = Len(q) /\ \A x \in Names : Count(p, x) = Count(q, x)

C10_OrderInsensitive ==
    /\ \A i \in 1..Len(log) : \A q \in Filters :
           IsPermutation(log[i].filters, q) => Join(SortStrings(q), ",") = log[i].key
    /\ \A i, j \in 1..Len(log) :
           (i < j /\ Filtered(i) /\ IsPermutation(log[i].filters, log[j].filters)) =>
               /\ log[i].key = log[j].key
               /\ Served(i) =>
                      /\ Served(j)
                      /\ log[j].handler = log[i].handler
                      /\ ~log[j].built

\* C10 witness: [gpu,cpu] built the handler and [cpu,gpu] was served by it.
C10_Witness ==
    /\ Len(log) >= 2
    /\ log[1].filters = <<"gpu", "cpu">>
    /\ log[2].filters = <<"cpu", "gpu">>
    /\ Served(1) /\ log[1].built
    /\ Served(2) /\ ~log[2].built
    /\ log[2].handler = log[1].handler

(***************************************************************************)
(* Claims about what the handler caches, checked under SpecHandler.        *)
(***************************************************************************)
\* The step answers a request; Answer is the log entry it adds.
Answers == Len(log') = Len(log) + 1
Answer == log'[Len(log')]
Failed(i) == log[i].status # "StatusOK"

\* C12: a request whose construction fails leaves the cache map and the
\* handler objects as they were, leaves no entry under its key and gets the
\* error; the next request with the same key calls collector.New again.
C12_FailureNotCached ==
    /\ [][(Answers /\ Answer.status # "StatusOK") =>
              /\ Answer.attempted
              /\ Answer.handler = 0
              /\ Answer.body # ""
              /\ h'.filteredHandlers = h.filteredHandlers
              /\ Answer.key \notin DOMAIN h'.filteredHandlers
              /\ handlers' = handlers]_vars
    /\ [](\A i \in 1..Len(log) :
              (Failed(i) /\ i < Len(log) /\ log[i + 1].key = log[i].key)
                  => log[i + 1].attempted)

\* A request failed on a factory error and the next request with the same
\* filter built the handler and stored it.
C12_Witness ==
    \E i \in 1..Len(log) :
        /\ Failed(i)
        /\ log[i].cause = "factory"
        /\ i < Len(log)
        /\ log[i + 1].filters = log[i].filters
        /\ log[i + 1].built
        /\ log[i].key \in DOMAIN h.filteredHandlers

HasInvalidName(i) == \E n \in 1..Len(log[i].filters) : ~IsValid(log[i].filters[n])

\* C13: whatever was requested before, a request whose filter list holds a
\* name that is not registered or not enabled is answered with the client
\* error and served by no handler.
C13_InvalidNameNeverServed ==
    \A i \in 1..Len(log) :
        HasInvalidName(i) => log[i].status = "StatusBadRequest" /\ log[i].handler = 0

C17_CacheEntriesStable ==
    [][/\ \A k \in DOMAIN h.filteredHandlers :
              /\ k \in DOMAIN h'.filteredHandlers
              /\ h'.filteredHandlers[k] = h.filteredHandlers[k]
              /\ handlers'[h.filteredHandlers[k]] = handlers[h.filteredHandlers[k]]
       /\ (Answers /\ Answer.filters # <<>> /\ Answer.key \in DOMAIN h.filteredHandlers) =>
              /\ Answer.status = "StatusOK"
              /\ Answer.handler = h.filteredHandlers[Answer.key]
              /\ ~Answer.attempted
              /\ ~Answer.built
              /\ h' = h
              /\ handlers' = handlers]_vars

\* A handler was built and stored, a handler for another key was stored
\* after it, and then the first key was requested again and hit.
C17_Witness ==
    \E i, m, j \in 1..Len(log) :
        /\ i < m /\ m < j
        /\ log[i].built /\ log[m].built
        /\ log[m].key # log[i].key
        /\ log[j].key = log[i].key
        /\ ~log[j].attempted
        /\ log[j].handler = log[i].handler
        /\ h.filteredHandlers[log[i].key] = log[i].handler

\* C18: the unfiltered handler is the one newHandler built and never
\* changes; it is not in the cache map, under no key; every handler built
\* later is in the map; a request without filters is served by it, calls
\* collector.New not at all and leaves the handler struct as it was.
C18_UnfilteredBuiltOnce ==
    /\ [](h.created =>
              /\ h.unfilteredHandler = 1
              /\ "" \notin DOMAIN h.filteredHandlers
              /\ \A k \in DOMAIN h.filteredHandlers :
                     h.filteredHandlers[k] # h.unfilteredHandler
              /\ \A id \in 1..Len(handlers) :
                     \/ id = h.unfilteredHandler
                     \/ \E k \in DOMAIN h.filteredHandlers : h.filteredHandlers[k] = id
              /\ \A i \in 1..Len(log) :
                     ~Filtered(i) =>
                         /\ Served(i)
                         /\ log[i].handler = h.unfilteredHandler
                         /\ ~log[i].attempted
                         /\ ~log[i].built)
    /\ [][/\ h.created => h'.unfilteredHandler = h.unfilteredHandler
          /\ (Answers /\ Answer.filters = <<>>) => h' = h /\ handlers' = handlers]_vars

\* Requests without filters were served before and after a filtered handler
\* was built and stored.
C18_Witness ==
    \E i, m, j \in 1..Len(log) :
        /\ i < m /\ m < j
        /\ ~Filtered(i) /\ ~Filtered(j)
        /\ log[m].built
        /\ log[i].handler = log[j].handler
        /\ DOMAIN h.filteredHandlers # {}

(***************************************************************************)
(* Claims about one unit's Update, checked under SpecCollect.              *)
(***************************************************************************)
\* C15 as stated: an Update that failed on a query has sent no reading.
C15_AsStated ==
    \A name \in DOMAIN task : UpdateFailed(name) => ReadingsOn(name) = <<>>

\* C15: when a query of Update fails, at whatever position and with either
\* kind of error, Update returns the error at once; it has sent exactly the
\* readings of the queries before the failing one, in order, and none for the
\* failing component or a later one: no reading at all only when the first
\* query failed.
C15_EmitsUntilFailure ==
    \A name \in DOMAIN task :
        task[name].err # "nil" =>
            /\ task[name].pc # "update"
            /\ task[name].err \in QueryErrors
            /\ task[name].idx < Len(Readings(name))
            /\ ReadingsOn(name) = SubSeq(Readings(name), 1, task[name].idx)
            /\ ReadingsOn(name) = <<>> <=> task[name].idx = 0

\* One unit failed on its first query and sent nothing, the other failed on
\* a later component with a parse error after it had sent readings.
C15_Witness ==
    \E n1, n2 \in DOMAIN task :
        /\ UpdateFailed(n1) /\ task[n1].err = "read error"
        /\ task[n1].idx = 0 /\ ReadingsOn(n1) = <<>>
        /\ UpdateFailed(n2) /\ task[n2].err = "parse error"
        /\ task[n2].idx >= 2 /\ Len(ReadingsOn(n2)) = task[n2].idx

(***************************************************************************)
(* Claims about registration, checked under SpecRegister.                  *)
(***************************************************************************)
FirstRegistration(name) ==
    registrations[Min({i \in 1..Len(registrations) : registrations[i].collector = name})]

Hung == \E name \in DOMAIN task : task[name].pc = "hung"

\* C20: a Collect call that waits returns, unless a query of some unit's
\* Update never returns; and from the moment a query hangs the call waits
\* for ever: it has not returned and no step makes it return.
C20_ReturnsUnlessHung ==
    /\ (collectPc = "waiting") ~> (collectPc = "returned" \/ Hung)
    /\ [](Hung => collectPc = "waiting")
    /\ [][Hung => (Hung' /\ collectPc' = "waiting")]_vars

\* Collect returned after both units ran, one of them with a failed Update.
C20_Witness ==
    /\ collectPc = "returned"
    /\ DOMAIN task = Registered
    /\ \A name \in Registered : task[name].pc = "exited"
    /\ \E name \in Registered : task[name].err # "nil"

(***************************************************************************)
(* Claims about two Collect calls on one collector, checked under          *)
(* SpecTwoCollects.                                                        *)
(***************************************************************************)
\* C19: the two calls are not serialized, and what they share they only
\* read: once the collector is built no step of either call changes c or a
\* unit instance, which stays as its factory made it; a step of the running
\* call leaves the second call's WaitGroup, goroutines and channel alone;
\* and the readings on a call's channel are those of its own queries.
C19_CallsShareOnlyWhatTheyRead ==
    /\ [](~c.isNil =>
              /\ DOMAIN units = c.collectors
              /\ \A name \in DOMAIN units : units[name] = NewCollector(name)
              /\ \A name \in DOMAIN task :
                     ReadingsOn(name) = SubSeq(Readings(name), 1, task[name].idx))
    /\ [][~c.isNil => (c' = c /\ units' = units)]_vars
    /\ [][active' = active => other' = other]_vars

\* Both calls are inside Update of the same unit instance, each after a
\* different number of queries.
C19_Witness ==
    /\ collectPc = "waiting"
    /\ other.collectPc = "waiting"
    /\ \E name \in DOMAIN task \cap DOMAIN other.task :
           /\ task[name].pc = "update" /\ other.task[name].pc = "update"
           /\ task[name].idx >= 1 /\ other.task[name].idx >= 1
           /\ task[name].idx # other.task[name].idx

(***************************************************************************)
(* Claims about requests served at the same time, checked under SpecServe. *)
(***************************************************************************)
\* C11: a write of the cache map overlaps no other access of the map, no key
\* is written twice, two requests that missed the same key never both hold a
\* handler they built for it, and the runtime never throws.
C11_CacheMutualExclusion ==
    /\ \A i, j \in Clients :
           i # j => ~(MapAccess(i) = "write" /\ MapAccess(j) # "none")
    /\ \A k \in Range(inserts) : Count(inserts, k) <= 1
    /\ \A i, j \in Clients :
           (i # j /\ req[i].key = req[j].key)
               => ~(req[i].pc \in {"store", "writing"} /\ req[j].pc \in {"store", "writing"})
    /\ ~crashed

(***************************************************************************)
(* Claims about the order of a unit's sends, checked under SpecCollect.    *)
(***************************************************************************)
\* The places on ch of the readings of unit `name`.
ReadingPlaces(name) == {i \in 1..Len(ch) : ch[i].desc \in UnitDescs(name)}

\* C27: whatever the interleaving with the other unit, the duration record
\* of a unit is on ch only when its Update has returned and comes after
\* every reading of the unit; the success record comes only after the
\* duration record; and the goroutine has called wg.Done() only when both
\* records are on ch, the counter being the number of goroutines that have
\* not.
C27_RecordsAfterReadings ==
    /\ \A name \in DOMAIN task :
           /\ Records(scrapeDurationDesc, name) # {} =>
                  /\ task[name].pc \notin {"update", "duration"}
                  /\ \A i \in ReadingPlaces(name), d \in Records(scrapeDurationDesc, name) :
                         i < d
           /\ Records(scrapeSuccessDesc, name) # {} =>
                  /\ task[name].pc \in {"done", "exited"}
                  /\ Records(scrapeDurationDesc, name) # {}
                  /\ \A d \in Records(scrapeDurationDesc, name),
                        k \in Records(scrapeSuccessDesc, name) : d < k
           /\ task[name].pc \in {"update", "duration"} =>
                  /\ Records(scrapeDurationDesc, name) = {}
                  /\ Records(scrapeSuccessDesc, name) = {}
           /\ task[name].pc = "exited" =>
                  /\ Records(scrapeDurationDesc, name) # {}
                  /\ Records(scrapeSuccessDesc, name) # {}
    /\ collectPc = "waiting" =>
           wg = Cardinality({name \in DOMAIN task : task[name].pc # "exited"})

\* The readings and records of the two units are interleaved on ch: a
\* reading of gpu lies between the records of cpu, whose goroutine has
\* exited while gpu's is still in Update.
C27_Witness ==
    /\ DOMAIN task = Registered
    /\ task["cpu"].pc = "exited"
    /\ task["gpu"].pc = "update"
    /\ ReadingPlaces("cpu") # {}
    /\ \E d \in Records(scrapeDurationDesc, "cpu"), k \in Records(scrapeSuccessDesc, "cpu"),
          g \in ReadingPlaces("gpu") : d < g /\ g < k

(***************************************************************************)
(* Claims about the size of the cache, checked under SpecCache.            *)
(***************************************************************************)
\* C23: the cache map never has more entries than the registered units have
\* non-empty subsets.
C23_CacheBounded ==
    Cardinality(DOMAIN h.filteredHandlers) <= 2 ^ Cardinality(DOMAIN collectorState) - 1

(***************************************************************************)
(* Claims about the registry after startup.  C21 is checked under          *)
(* SpecHandler; the same formula holds under SpecNew, SpecCollect,         *)
(* SpecTwoCollects, SpecCollectFair, SpecCache and SpecServe.              *)
(***************************************************************************)
\* C21: once the flags are parsed no step, of a request that is served from
\* the cache, builds a handler or fails to, or of a Collect pass, changes
\* the registry: the registered names, their flags and their factories stay
\* those of startup.
C21_RegistryReadOnly ==
    /\ [][parsed => /\ collectorState' = collectorState
                    /\ factories' = factories
                    /\ registrations' = registrations
                    /\ parsed']_vars
    /\ [](parsed => /\ DOMAIN collectorState = Registered
                    /\ factories = [name \in Registered |-> FactoryOf(name)])

\* Requests have failed on an unregistered name, on a disabled name and on a
\* factory error, and another has built and stored a handler.
C21_Witness ==
    /\ \E i \in 1..Len(log) : log[i].cause = "missing collector"
    /\ \E i \in 1..Len(log) : log[i].cause \in {"disabled collector", "factory"}
    /\ \E i \in 1..Len(log) : log[i].built
    /\ DOMAIN h.filteredHandlers # {}

(***************************************************************************)
(* Claims about the conversion of the temperature file, checked under      *)
(* SpecTemperature.                                                        *)
(***************************************************************************)
\* The content is an integer of millidegrees followed by a newline, and the
\* integer it writes, summed position by position.
IsMillidegrees(b) ==
    /\ Len(b) >= 2
    /\ b[Len(b)] = "\n"
    /\ \A i \in 1..(Len(b) - 1) : IsDigit(b[i])
RECURSIVE Written(_, _)
Written(b, n) ==
    IF n = 0 THEN 0 ELSE DigitValue(b[n]) * 10 ^ (Len(b) - 1 - n) + Written(b, n - 1)
Millidegrees(b) == Written(b, Len(b) - 1)
SameNumber(q, num, den) == q.num * den = num * q.den

\* The conversion succeeded and sent exactly one temperature reading, of the
\* value m / 1000.
SentCelsius(m) ==
    /\ conversion.err = NilErr
    /\ Len(conversion.sent) = 1
    /\ conversion.sent[1].desc = cpuTempCelsius
    /\ SameNumber(conversion.sent[1].value, m, 1000)

CpuConvertsMillidegrees ==
    (conversion.by = "cpuCollector.Update" /\ IsMillidegrees(conversion.b))
        => SentCelsius(Millidegrees(conversion.b))
ExporterConvertsMillidegrees ==
    (conversion.by = "Exporter.scrape" /\ IsMillidegrees(conversion.b))
        => SentCelsius(Millidegrees(conversion.b))

\* C22 as stated: when the content of the temperature file is an integer m
\* of millidegrees followed by a newline, the temperature unit succeeds and
\* sends exactly one temperature reading of the value m / 1000, in cpu.go and
\* in Exporter.scrape alike.
C22_AsStated == CpuConvertsMillidegrees /\ ExporterConvertsMillidegrees

\* Both have converted "55300\n".
CpuConverted55300 ==
    /\ conversion.by = "cpuCollector.Update"
    /\ conversion.b = <<"5", "5", "3", "0", "0", "\n">>
    /\ conversion.err = NilErr
    /\ conversion.sent = <<MustNewConstMetric(cpuTempCelsius, Quo(55300, 1000), "")>>
ExporterConverted55300 ==
    /\ conversion.by = "Exporter.scrape"
    /\ conversion.b = <<"5", "5", "3", "0", "0", "\n">>
    /\ conversion.err = ErrSyntax
    /\ conversion.sent = <<MustNewConstMetric(cpuTempCelsius, Quo(0, 1), "")>>
ExporterConverted55300Bare ==
    /\ conversion.by = "Exporter.scrape"
    /\ conversion.b = <<"5", "5", "3", "0", "0">>
    /\ SentCelsius(55300)

(***************************************************************************)
(* Claims about the single-gauge Exporter, checked under SpecExporter.     *)
(***************************************************************************)
LastScrape == scrapes[Len(scrapes)]
FailedScrapes == {i \in 1..Len(scrapes) : scrapes[i].err # NilErr}
InCollect(g) == collects[g].pc \in {"scrape", "collect", "unlock"}

\* C25: every scrape adds one to the total-scrapes counter, whatever it
\* returns, and leaves the up gauge at 1 if it returned no error and at 0 if
\* it returned the read error or the parse error; no other step changes
\* either, so the counter is the number of scrapes and up shows the last one.
C25_UpShowsLastScrape ==
    /\ [][IF scrapes' # scrapes
          THEN /\ e'.totalScrapes = e.totalScrapes + 1
               /\ e'.up = (IF scrapes'[Len(scrapes')].err = NilErr THEN 1 ELSE 0)
          ELSE /\ e'.totalScrapes = e.totalScrapes
               /\ e'.up = e.up]_vars
    /\ [](e.totalScrapes = Len(scrapes))
    /\ [](scrapes # <<>> => (e.up = 1 <=> LastScrape.err = NilErr))
    /\ [](scrapes # <<>> => e.up \in {0, 1})

\* A scrape failed to read, one failed to parse, and the last one succeeded.
C25_Witness ==
    /\ Len(scrapes) = 3
    /\ {scrapes[1].err, scrapes[2].err} = {ErrRead, ErrSyntax}
    /\ scrapes[3].err = NilErr
    /\ e.up = 1
    /\ e.totalScrapes = 3

\* C26 as stated: the scrape-failures counter is the number of scrapes that
\* returned an error, so it is at most the total and grows by one with each
\* failed scrape.
C26_FailuresCounted ==
    /\ e.failedScrapes = Cardinality(FailedScrapes)
    /\ e.failedScrapes <= e.totalScrapes

\* C24: at most one Collect call is between its Lock and its Unlock, and
\* what a call has sent so far are the values its own scrape left: up,
\* duration, the two counters and the temperature.
C24_CollectsExclusive ==
    /\ \A g1, g2 \in Scrapers : (InCollect(g1) /\ InCollect(g2)) => g1 = g2
    /\ \A g \in Scrapers : InCollect(g) => e.mutex = g
    /\ \A g \in Scrapers : \A i \in 1..Len(collects[g].sent) :
            collects[g].sent[i] = collects[g].scraped[i]

\* One goroutine has finished a Collect call; the other is sending the
\* metrics of its own scrape, which set another temperature, and holds the
\* lock the first would need to start again.
C24_Witness ==
    \E g1, g2 \in Scrapers :
        /\ g1 # g2
        /\ collects[g1].pc = "idle"
        /\ Len(collects[g1].sent) = Len(ExporterMetrics)
        /\ collects[g2].pc = "collect"
        /\ Len(collects[g2].sent) = Len(ExporterMetrics) - 1
        /\ collects[g2].scraped[5] # collects[g1].sent[5]
        /\ collects[g2].scraped[4] = collects[g1].sent[4] + 1
        /\ ~Unlocked(e)
====
